---- MODULE Spec2Model ----
(***************************************************************************)
(* tieredsort (include/tieredsort.hpp): bit codec, pattern detector, range *)
(* detector, counting sorts, LSD radix sort, the dispatch engine of sort   *)
(* and stable_sort, and sort_by_key.                                       *)
(*                                                                         *)
(* Scale.  TLC's integers are 32 bits wide and the state space has to be   *)
(* enumerable, so every size of the source is divided down uniformly:      *)
(*     32-bit element  -> BITS32 = 8 bits                                  *)
(*     64-bit element, size_t, uint64_t -> BITS64 = 16 bits                *)
(*     radix digit of 8 bits (256 buckets) -> RADIX_BITS = 2 (4 buckets),  *)
(*         which keeps the pass counts of the source: 4 and 8              *)
(*     small-array threshold 256 -> SMALL_THRESHOLD = 8                    *)
(*     64 samples -> SAMPLE_COUNT = 2, which keeps the stride of the       *)
(*         source at the threshold (256/64 = 8/2 = 4)                      *)
(*     float  (1+8+23)  -> 1 sign, 4 exponent, MANT32 = 3 fraction bits    *)
(*     double (1+11+52) -> 1 sign, 4 exponent, MANT64 = 11 fraction bits   *)
(* The arithmetic is kept: wrap-around at the element width and at the     *)
(* width of size_t, sign-bit flips, bitwise NOT.                           *)
(*                                                                         *)
(* An element of R is a record [v, id]: v is the value (an integer for the *)
(* integer types, the bit pattern for float and double), id is the index   *)
(* the element had on entry.  For sort_by_key v is the record's key and id *)
(* its payload.  id 0 marks a value that was not moved but written anew.   *)
(***************************************************************************)
EXTENDS Integers, Sequences, FiniteSets, TLC

VARIABLES
    ty,       \* element type of the call (key type for sort_by_key)
    R,        \* the caller's range
    R0,       \* R as it was on entry
    temp,     \* the scratch buffer
    pc,       \* "idle", "radix", "done", "crashed", "bad_alloc"; codec: "start", "encoded", "decoded"
    op,       \* "none", "sort", "stable_sort", "sort_by_key", "sort_buffer",
              \* "stable_sort_buffer", "sort_again", "detect"
    path,     \* leaf the dispatch engine chose
    shift,    \* shift of the next radix pass
    srcIsArr, \* TRUE when the radix source buffer is R, FALSE when it is temp
    x, y,     \* codec: two values of type ty
    ex, ey,   \* codec: their encodings
    dx,       \* codec: ex decoded
    ret,      \* detectors: what a direct call returned and left in its out parameters
    lp,       \* loops run on their own: the loop, its counter, its histogram
    temp0     \* the caller's buffer as it was handed to the call

vars == <<ty, R, R0, temp, pc, op, path, shift, srcIsArr, x, y, ex, ey, dx, ret, lp,
          temp0>>

\* lp when no loop is being run on its own
NoLoop == [loop |-> "none", at |-> "none", i |-> 0, n |-> 0, count |-> <<>>,
           count0 |-> <<>>, out |-> 0]

\* ret before any detector has been called
NoCall == [fn |-> "none", ok |-> FALSE, min |-> 0, max |-> 0, in_min |-> 0, in_max |-> 0]

-----------------------------------------------------------------------------
(* Sizes *)

BITS32 == 8
BITS64 == 16
RADIX_BITS == 2
SMALL_THRESHOLD == 8
SAMPLE_COUNT == 2
MANT32 == 3
MANT64 == 11

\* Longest input drawn.
MaxLen == 8
\* Most negative zeros in a float input.
MaxNegZeros == 2

Types == {"i32", "u32", "i64", "u64", "f32", "f64"}
IntTypes == {"i32", "u32", "i64", "u64"}
FloatTypes == {"f32", "f64"}
SignedTypes == {"i32", "i64"}
KeyTypes == {"i32", "u32"}

Bits(t) == IF t \in {"i32", "u32", "f32"} THEN BITS32 ELSE BITS64
Mant(t) == IF t = "f32" THEN MANT32 ELSE MANT64

SignBit(w) == 2 ^ (w - 1)
Mask(w) == 2 ^ w - 1

MinOf(t) == IF t \in SignedTypes THEN -SignBit(Bits(t)) ELSE 0
MaxOf(t) == IF t \in SignedTypes THEN SignBit(Bits(t)) - 1 ELSE Mask(Bits(t))

-----------------------------------------------------------------------------
(* Machine arithmetic *)

\* static_cast to the unsigned type of w bits
ToUnsignedW(a, w) == a % (2 ^ w)

\* static_cast of an unsigned w-bit value to the signed type of w bits
ToSignedW(u, w) == IF u >= SignBit(w) THEN u - 2 ^ w ELSE u

\* u ^ 0x80..0 on w bits
XorSign(u, w) == IF (u \div SignBit(w)) % 2 = 1 THEN u - SignBit(w) ELSE u + SignBit(w)

\* ~u on w bits
NotBits(u, w) == Mask(w) - u

\* (u & 0x80..0) != 0
TopBitSet(u, w) == (u \div SignBit(w)) % 2 = 1

-----------------------------------------------------------------------------
(* IEEE-754 values.  A float is held as its bit pattern; its numeric value *)
(* is (-1)^s * 1.f * 2^(e - bias) for e > 0 and (-1)^s * 0.f * 2^(1 - bias)*)
(* for e = 0, here in units of the smallest subnormal.                     *)

FSign(t, b) == b \div SignBit(Bits(t))
FExp(t, b) == (b % SignBit(Bits(t))) \div (2 ^ Mant(t))
FFrac(t, b) == b % (2 ^ Mant(t))
FExpMax(t) == 2 ^ (Bits(t) - 1 - Mant(t)) - 1

FMagnitude(t, b) ==
    IF FExp(t, b) = 0 THEN FFrac(t, b)
    ELSE (2 ^ Mant(t) + FFrac(t, b)) * 2 ^ (FExp(t, b) - 1)

FValue(t, b) == IF FSign(t, b) = 1 THEN -FMagnitude(t, b) ELSE FMagnitude(t, b)

IsFinite(t, b) == FExp(t, b) < FExpMax(t)

PosZero == 0
NegZero(t) == SignBit(Bits(t))

\* operator< and operator<= of the element type
Less(t, a, b) == IF t \in FloatTypes THEN FValue(t, a) < FValue(t, b) ELSE a < b
LessEq(t, a, b) == IF t \in FloatTypes THEN FValue(t, a) <= FValue(t, b) ELSE a <= b

-----------------------------------------------------------------------------
(* Bit codec *)

to_unsigned_flipfloat(t, v) ==
    IF t \in SignedTypes THEN XorSign(ToUnsignedW(v, Bits(t)), Bits(t))
    ELSE IF t \in FloatTypes THEN XorSign(v, Bits(t))
    ELSE v

to_unsigned(t, v) ==
    IF t \in SignedTypes THEN XorSign(ToUnsignedW(v, Bits(t)), Bits(t))
    ELSE IF t \in FloatTypes
         THEN IF TopBitSet(v, Bits(t)) THEN NotBits(v, Bits(t)) ELSE XorSign(v, Bits(t))
    ELSE v

from_unsigned_nonot(t, u) ==
    IF t \in SignedTypes THEN ToSignedW(XorSign(u, Bits(t)), Bits(t))
    ELSE IF t \in FloatTypes THEN XorSign(u, Bits(t))
    ELSE u

from_unsigned(t, u) ==
    IF t \in SignedTypes THEN ToSignedW(XorSign(u, Bits(t)), Bits(t))
    ELSE IF t \in FloatTypes
         THEN IF TopBitSet(u, Bits(t)) THEN XorSign(u, Bits(t)) ELSE NotBits(u, Bits(t))
    ELSE u

-----------------------------------------------------------------------------
(* Values the codec is exercised on: every finite value of the narrow      *)
(* types for x; minima, maxima, zeros, subnormals and normals for y and    *)
(* for the wide types.                                                     *)

FloatSample(t) ==
    LET one == (FExpMax(t) \div 2) * 2 ^ Mant(t)
        maxfin == FExpMax(t) * 2 ^ Mant(t) - 1
        pos == {PosZero, 1, 2, 2 ^ Mant(t) - 1, 2 ^ Mant(t), one, one + 1, maxfin - 1, maxfin}
    IN  pos \cup {NegZero(t) + p : p \in pos}

IntSample(t) ==
    {MinOf(t), MinOf(t) + 1, MaxOf(t) - 1, MaxOf(t), 0, 1, 2,
     SignBit(Bits(t)) - 1, SignBit(Bits(t)) - 2}
        \cup (IF t \in SignedTypes THEN {-1, -2} ELSE {SignBit(Bits(t)), SignBit(Bits(t)) + 1})

Sample(t) == IF t \in FloatTypes THEN FloatSample(t) ELSE IntSample(t)

AllFinite(t) ==
    IF t \in FloatTypes THEN {b \in 0..Mask(Bits(t)) : IsFinite(t, b)}
    ELSE MinOf(t)..MaxOf(t)

CodecDomain(t) == IF Bits(t) = BITS32 THEN AllFinite(t) ELSE Sample(t)

CodecInit ==
    /\ ty \in Types
    /\ x \in CodecDomain(ty)
    /\ y \in Sample(ty)
    /\ pc = "start"
    /\ ex = 0 /\ ey = 0 /\ dx = 0
    /\ R = <<>> /\ R0 = <<>> /\ temp = <<>>
    /\ op = "none" /\ path = "none" /\ shift = 0 /\ srcIsArr = TRUE
    /\ ret = NoCall
    /\ lp = NoLoop
    /\ temp0 = <<>>

Encode ==
    /\ pc = "start"
    /\ ex' = to_unsigned(ty, x)
    /\ ey' = to_unsigned(ty, y)
    /\ pc' = "encoded"
    /\ UNCHANGED <<temp0, lp, ret, ty, R, R0, temp, op, path, shift, srcIsArr, x, y, dx>>

Decode ==
    /\ pc = "encoded"
    /\ dx' = from_unsigned(ty, ex)
    /\ pc' = "decoded"
    /\ UNCHANGED <<temp0, lp, ret, ty, R, R0, temp, op, path, shift, srcIsArr, x, y, ex, ey>>

CodecNext == Encode \/ Decode

SpecCodec == CodecInit /\ [][CodecNext]_vars

-----------------------------------------------------------------------------
(* Sequences of elements *)

Vals(s) == [i \in 1..Len(s) |-> s[i].v]
Elem(v, i) == [v |-> v, id |-> i]
Tagged(vs) == [i \in 1..Len(vs) |-> Elem(vs[i], i)]
Untagged(vs) == [i \in 1..Len(vs) |-> Elem(vs[i], 0)]

\* std::vector<T> temp(n): n value-initialised elements
ZeroBuffer(n) == [i \in 1..n |-> Elem(0, 0)]

MinVal(S) == CHOOSE m \in S : \A s \in S : m <= s
MaxVal(S) == CHOOSE m \in S : \A s \in S : m >= s
Max2(a, b) == IF a >= b THEN a ELSE b

-----------------------------------------------------------------------------
(* The external comparison sorts, by their contracts.                      *)

\* Position of element i after a stable sort: behind every smaller element
\* and behind every equivalent element that came before it.
StableRank(t, s, i) ==
    1 + Cardinality({j \in 1..Len(s) : Less(t, s[j].v, s[i].v)})
      + Cardinality({j \in 1..(i - 1) : ~Less(t, s[j].v, s[i].v) /\ ~Less(t, s[i].v, s[j].v)})

\* std::stable_sort(first, last) and std::stable_sort(first, last, by key)
StdStableSort(t, s) ==
    [p \in 1..Len(s) |-> s[CHOOSE i \in 1..Len(s) : StableRank(t, s, i) = p]]

\* std::sort(first, last): sorted, equivalent elements in any order.  Only +0.0
\* and -0.0 are equivalent and distinguishable, so the outcomes differ in where
\* the negative zeros stand within the run of zeros.
StdSort(t, s) ==
    LET base == Vals(StdStableSort(t, s))
        n == Len(s)
    IN  IF t \in FloatTypes
        THEN LET zs == {i \in 1..n : FValue(t, base[i]) = 0}
                 k == Cardinality({i \in zs : base[i] = NegZero(t)})
             IN  {Untagged([i \in 1..n |->
                      IF i \in zs THEN (IF i \in P THEN NegZero(t) ELSE PosZero)
                      ELSE base[i]]) :
                  P \in {Q \in SUBSET zs : Cardinality(Q) = k}}
        ELSE {Untagged(base)}

-----------------------------------------------------------------------------
(* Tier 2: pattern detection.  arr is 0-based in the source: arr[k] is     *)
(* s[k + 1].v here.                                                        *)

Asc4(t, s, k) ==
    /\ LessEq(t, s[k + 1].v, s[k + 2].v)
    /\ LessEq(t, s[k + 2].v, s[k + 3].v)
    /\ LessEq(t, s[k + 3].v, s[k + 4].v)

Desc4(t, s, k) ==
    /\ LessEq(t, s[k + 2].v, s[k + 1].v)
    /\ LessEq(t, s[k + 3].v, s[k + 2].v)
    /\ LessEq(t, s[k + 4].v, s[k + 3].v)

\* The detector asking for one direction over all three windows.
is_pattern_sorted_samedir(t, s, n) ==
    IF n < 8 THEN TRUE
    ELSE LET m == n \div 2
         IN  \/ Asc4(t, s, 0) /\ Asc4(t, s, m - 1) /\ Asc4(t, s, n - 4)
             \/ Desc4(t, s, 0) /\ Desc4(t, s, m - 1) /\ Desc4(t, s, n - 4)

\* The detector without the middle window.
is_pattern_sorted_headtail(t, s, n) ==
    IF n < 8 THEN TRUE
    ELSE /\ Asc4(t, s, 0) \/ Desc4(t, s, 0)
         /\ Asc4(t, s, n - 4) \/ Desc4(t, s, n - 4)

\* The detector comparing with < and > instead of <= and >=.
is_pattern_sorted_strict(t, s, n) ==
    IF n < 8 THEN TRUE
    ELSE LET m == n \div 2
             up(k) == \A j \in 1..3 : Less(t, s[k + j].v, s[k + j + 1].v)
             down(k) == \A j \in 1..3 : Less(t, s[k + j + 1].v, s[k + j].v)
         IN  /\ up(0) \/ down(0)
             /\ up(m - 1) \/ down(m - 1)
             /\ up(n - 4) \/ down(n - 4)

is_pattern_sorted(t, s, n) ==
    IF n < 8 THEN TRUE
    ELSE LET m == n \div 2
         IN  /\ Asc4(t, s, 0) \/ Desc4(t, s, 0)
             /\ Asc4(t, s, m - 1) \/ Desc4(t, s, m - 1)
             /\ Asc4(t, s, n - 4) \/ Desc4(t, s, n - 4)

-----------------------------------------------------------------------------
(* Tier 3: dense range detection *)

safe_range(t, min_val, max_val) ==
    IF Bits(t) = BITS32
    THEN ToUnsignedW(max_val - min_val + 1, BITS64)
    ELSE LET umax == IF t \in SignedTypes
                     THEN XorSign(ToUnsignedW(max_val, BITS64), BITS64)
                     ELSE ToUnsignedW(max_val, BITS64)
             umin == IF t \in SignedTypes
                     THEN XorSign(ToUnsignedW(min_val, BITS64), BITS64)
                     ELSE ToUnsignedW(min_val, BITS64)
         IN  ToUnsignedW(umax - umin + 1, BITS64)

StrideUnfloored(n) == n \div SAMPLE_COUNT

Stride(n) == Max2(1, n \div SAMPLE_COUNT)
SampleIdx(n) == {i \in 0..(n - 1) : i % Stride(n) = 0}

\* The detector with the threshold n on the exact range as well.
detect_dense_range_tight(t, s, n, out_min, out_max) ==
    LET sampled == {s[1].v} \cup {s[i + 1].v : i \in SampleIdx(n)}
        smin == MinVal(sampled)
        smax == MaxVal(sampled)
        range_est == safe_range(t, smin, smax)
        all == {smin, smax} \cup {s[i].v : i \in 1..n}
        fmin == MinVal(all)
        fmax == MaxVal(all)
        range == safe_range(t, fmin, fmax)
    IN  IF range_est > ToUnsignedW(n, BITS64)
        THEN [ok |-> FALSE, min |-> out_min, max |-> out_max]
        ELSE IF range <= ToUnsignedW(n, BITS64)
             THEN [ok |-> TRUE, min |-> fmin, max |-> fmax]
             ELSE [ok |-> FALSE, min |-> out_min, max |-> out_max]

\* [ok, min, max]: the return value, and out_min, out_max after the call;
\* the parameters out_min, out_max are what the caller's variables held
\* before it.
detect_dense_range(t, s, n, out_min, out_max) ==
    LET sampled == {s[1].v} \cup {s[i + 1].v : i \in SampleIdx(n)}
        smin == MinVal(sampled)
        smax == MaxVal(sampled)
        range_est == safe_range(t, smin, smax)
        all == {smin, smax} \cup {s[i].v : i \in 1..n}
        fmin == MinVal(all)
        fmax == MaxVal(all)
        range == safe_range(t, fmin, fmax)
    IN  IF range_est > ToUnsignedW(n, BITS64)
        THEN [ok |-> FALSE, min |-> out_min, max |-> out_max]
        ELSE IF range <= ToUnsignedW(ToUnsignedW(n, BITS64) * 2, BITS64)
             THEN [ok |-> TRUE, min |-> fmin, max |-> fmax]
             ELSE [ok |-> FALSE, min |-> out_min, max |-> out_max]

-----------------------------------------------------------------------------
(* Histograms and back-to-front placement, shared by the stable counting   *)
(* sort, the counting sort over records and the radix passes.  A histogram *)
(* is a function on 0..nb-1; bk[i] is the bucket of src[i].                *)

Histogram(bk, n, nb) ==
    [b \in 0..(nb - 1) |-> Cardinality({i \in 1..n : bk[i] = b})]

RECURSIVE SumTo(_, _)
SumTo(count, b) == IF b < 0 THEN 0 ELSE count[b] + SumTo(count, b - 1)

\* for (i = 1; i < nb; i++) count[i] += count[i - 1];
PrefixSum(count, nb) == [b \in 0..(nb - 1) |-> SumTo(count, b)]

\* The same placement walking front to back: for (i = 0; i < n; i++)
RECURSIVE PlaceFwd(_, _, _, _, _)
PlaceFwd(src, bk, j, count, dst) ==
    IF j > Len(src) THEN dst
    ELSE LET c == count[bk[j]] - 1
         IN  PlaceFwd(src, bk, j + 1, [count EXCEPT ![bk[j]] = c],
                      [dst EXCEPT ![c + 1] = src[j]])

PlaceFront(src, bk, i, count, dst) == PlaceFwd(src, bk, 1, count, dst)

\* for (i = n; i-- > 0;) dst[--count[bk[i]]] = src[i];   (i is 1-based here)
RECURSIVE PlaceBack(_, _, _, _, _)
PlaceBack(src, bk, i, count, dst) ==
    IF i = 0 THEN dst
    ELSE LET c == count[bk[i]] - 1
         IN  PlaceBack(src, bk, i - 1, [count EXCEPT ![bk[i]] = c],
                       [dst EXCEPT ![c + 1] = src[i]])

-----------------------------------------------------------------------------
(* Tier 3: counting sorts *)

\* arithmetic in T (int promotes nothing here: T is at least int wide)
WrapT(t, a) ==
    IF t \in SignedTypes THEN ToSignedW(ToUnsignedW(a, Bits(t)), Bits(t))
    ELSE ToUnsignedW(a, Bits(t))

\* static_cast<size_t>(max_val - min_val + 1)
CountRange(t, min_val, max_val) == ToUnsignedW(WrapT(t, max_val - min_val + 1), BITS64)

\* static_cast<size_t>(arr[i] - min_val)
CountIndex(t, v, min_val) == ToUnsignedW(WrapT(t, v - min_val), BITS64)

CountBuckets(t, s, n, min_val) == [i \in 1..n |-> CountIndex(t, s[i].v, min_val)]

\* every count[...] access falls inside the vector
IndicesInRange(bk, n, range) == \A i \in 1..n : bk[i] < range

RECURSIVE Emit(_, _, _, _, _)
\* for (i = 0; i < range; i++) while (count[i]-- > 0) arr[idx++] = T(i) + min_val;
Emit(t, count, i, range, min_val) ==
    IF i >= range THEN <<>>
    ELSE [k \in 1..count[i] |-> WrapT(t, i + min_val)] \o Emit(t, count, i + 1, range, min_val)

\* Outcomes [ok, R] and [ok, R, temp].  An access outside the histogram is undefined
\* behaviour: the call dies (ok = FALSE), or the stray increments land
\* outside the vector and the loops run on what the vector holds.
counting_sort(t, s, n, min_val, max_val) ==
    LET range == CountRange(t, min_val, max_val)
        bk == CountBuckets(t, s, n, min_val)
        out == Emit(t, Histogram(bk, n, range), 0, range, min_val)
        arr == [p \in 1..n |-> IF p <= Len(out) THEN Elem(out[p], 0) ELSE s[p]]
    IN  IF IndicesInRange(bk, n, range)
        THEN {[ok |-> TRUE, R |-> arr]}
        ELSE {[ok |-> FALSE, R |-> s], [ok |-> TRUE, R |-> arr]}

counting_sort_stable(t, s, n, min_val, max_val, tmp) ==
    LET range == CountRange(t, min_val, max_val)
        bk == CountBuckets(t, s, n, min_val)
    IN  IF IndicesInRange(bk, n, range)
        THEN LET placed == PlaceBack(s, bk, n, PrefixSum(Histogram(bk, n, range), range), tmp)
             IN  {[ok |-> TRUE, R |-> placed, temp |-> placed]}
        ELSE {[ok |-> FALSE, R |-> s, temp |-> tmp], [ok |-> TRUE, R |-> tmp, temp |-> tmp]}

-----------------------------------------------------------------------------
(* Tier 4: LSD radix sort, RADIX_BITS bits a pass *)

NumBuckets == 2 ^ RADIX_BITS
Digit(u, sh) == (u \div (2 ^ sh)) % NumBuckets

\* for (i = 0; i < n; i++) src[i] = to_unsigned(arr[i]);
RadixEncode(t, s) == [i \in 1..Len(s) |-> Elem(to_unsigned(t, s[i].v), s[i].id)]

\* int count[256]: the counters are int, and the build wraps them
IntOf(a) == ToSignedW(ToUnsignedW(a, BITS32), BITS32)

\* count[...]++ for every element, then count[i] += count[i - 1], in int
IntPrefixSum(count, nb) == [b \in 0..(nb - 1) |-> IntOf(SumTo(count, b))]

\* for (i = n; i-- > 0;) dst[--count[bk[i]]] = src[i] with int counters
\* (i is 1-based here).  st.at lists the indices written, in order; a
\* write outside dst lands beside it and leaves dst as it is.
RECURSIVE RadixPlace(_, _, _, _)
RadixPlace(src, bk, i, st) ==
    IF i = 0 THEN st
    ELSE LET c == IntOf(st.count[bk[i]] - 1)
         IN  RadixPlace(src, bk, i - 1,
                        [count |-> [st.count EXCEPT ![bk[i]] = c],
                         at |-> Append(st.at, c),
                         dst |-> IF c \in 0..(Len(st.dst) - 1)
                                 THEN [st.dst EXCEPT ![c + 1] = src[i]]
                                 ELSE st.dst])

\* one pass of the loop over shift: counters after the prefix sum, then
\* the placement
RadixPassRun(src, dst, sh) ==
    LET n == Len(src)
        bk == [i \in 1..n |-> Digit(src[i].v, sh)]
        count == IntPrefixSum(Histogram(bk, n, NumBuckets), NumBuckets)
    IN  [summed |-> count,
         placed |-> RadixPlace(src, bk, n, [count |-> count, at |-> <<>>, dst |-> dst])]

\* the new contents of dst
RadixPassResult(src, dst, sh) == RadixPassRun(src, dst, sh).placed.dst

\* every dst[...] of the pass is an element of dst
RadixPassInBounds(src, dst, sh) ==
    LET at == RadixPassRun(src, dst, sh).placed.at
    IN  \A k \in 1..Len(at) : at[k] >= 0 /\ at[k] < Len(dst)

\* for (i = 0; i < n; i++) arr[i] = from_unsigned_*(u[i]);
RadixDecode(t, s) == [i \in 1..Len(s) |-> Elem(from_unsigned(t, s[i].v), s[i].id)]

\* the whole loop over shift, from shift sh on: where the data ends up
RECURSIVE RadixLoop(_, _, _, _)
RadixLoop(t, src, dst, sh) ==
    IF sh >= Bits(t) THEN src
    ELSE RadixLoop(t, RadixPassResult(src, dst, sh), src, sh + RADIX_BITS)

-----------------------------------------------------------------------------
(* Dispatch engine.  A result is the state the call is in after the        *)
(* dispatch: returned ("done"), dead ("crashed"), or in the radix loop.    *)

\* T min_val, max_val: the callers' locals are passed uninitialised and are
\* read only after the detector has written them; the model passes 0.

Result(r, tmp, where, leaf) == [R |-> r, temp |-> tmp, pc |-> where, path |-> leaf]

Returned(ok) == IF ok THEN "done" ELSE "crashed"

\* The same allocation made lazily by the radix sort, after its in-place
\* encoding loop.
ScratchAllocInRadix(t, s) == {Result(RadixEncode(t, s), <<>>, "bad_alloc", "none")}

\* std::vector<T> temp(n) throws std::bad_alloc: the exception leaves the
\* call with the range as it stands at that statement.
ScratchAllocFails(t, s) == {Result(s, <<>>, "bad_alloc", "none")}

\* std::vector<size_t> count(range, 0), the first statement of the counting
\* sorts, throws.  An empty vector allocates nothing.
HistogramAllocFails(t, s, min_val, max_val, tmp) ==
    IF CountRange(t, min_val, max_val) > 0
    THEN {Result(s, tmp, "bad_alloc", "counting")}
    ELSE {}

\* The dispatch with a pattern path that reverses what it takes for a
\* descending run instead of sorting it.
tieredsort_impl_reversing(t, s, n, tmp) ==
    IF n < SMALL_THRESHOLD
    THEN {Result(o, tmp, "done", "small") : o \in StdSort(t, s)}
    ELSE IF is_pattern_sorted(t, s, n)
    THEN {Result([i \in 1..n |-> s[n + 1 - i]], tmp, "done", "pattern")}
    ELSE IF t \in IntTypes /\ detect_dense_range(t, s, n, 0, 0).ok
    THEN LET d == detect_dense_range(t, s, n, 0, 0)
         IN  {Result(o.R, tmp, Returned(o.ok), "counting") :
                  o \in counting_sort(t, s, n, d.min, d.max)}
    ELSE {Result(RadixEncode(t, s), tmp, "radix", "radix")}

\* The unstable dispatch whose counting sort goes through the scratch
\* buffer, as the stable one does.
tieredsort_impl_scratchcount(t, s, n, tmp) ==
    IF n < SMALL_THRESHOLD
    THEN {Result(o, tmp, "done", "small") : o \in StdSort(t, s)}
    ELSE IF is_pattern_sorted(t, s, n)
    THEN {Result(o, tmp, "done", "pattern") : o \in StdSort(t, s)}
    ELSE IF t \in IntTypes /\ detect_dense_range(t, s, n, 0, 0).ok
    THEN LET d == detect_dense_range(t, s, n, 0, 0)
         IN  {Result(o.R, o.R, Returned(o.ok), "counting") :
                  o \in counting_sort(t, s, n, d.min, d.max)}
    ELSE {Result(RadixEncode(t, s), tmp, "radix", "radix")}

tieredsort_impl(t, s, n, tmp) ==
    IF n < SMALL_THRESHOLD
    THEN {Result(o, tmp, "done", "small") : o \in StdSort(t, s)}
    ELSE IF is_pattern_sorted(t, s, n)
    THEN {Result(o, tmp, "done", "pattern") : o \in StdSort(t, s)}
    ELSE IF t \in IntTypes /\ detect_dense_range(t, s, n, 0, 0).ok
    THEN LET d == detect_dense_range(t, s, n, 0, 0)
         IN  HistogramAllocFails(t, s, d.min, d.max, tmp) \cup
             {Result(o.R, tmp, Returned(o.ok), "counting") :
                  o \in counting_sort(t, s, n, d.min, d.max)}
    ELSE {Result(RadixEncode(t, s), tmp, "radix", "radix")}

\* The stable dispatch consulting the Range Detector before the Pattern
\* Detector.
tieredsort_stable_impl_rangefirst(t, s, n, tmp) ==
    IF n < SMALL_THRESHOLD
    THEN {Result(StdStableSort(t, s), tmp, "done", "small")}
    ELSE IF t \in IntTypes /\ detect_dense_range(t, s, n, 0, 0).ok
    THEN LET d == detect_dense_range(t, s, n, 0, 0)
         IN  {Result(o.R, o.temp, Returned(o.ok), "counting") :
                  o \in counting_sort_stable(t, s, n, d.min, d.max, tmp)}
    ELSE IF is_pattern_sorted(t, s, n)
    THEN {Result(StdStableSort(t, s), tmp, "done", "pattern")}
    ELSE {Result(RadixEncode(t, s), tmp, "radix", "radix")}

tieredsort_stable_impl(t, s, n, tmp) ==
    IF n < SMALL_THRESHOLD
    THEN {Result(StdStableSort(t, s), tmp, "done", "small")}
    ELSE IF is_pattern_sorted(t, s, n)
    THEN {Result(StdStableSort(t, s), tmp, "done", "pattern")}
    ELSE IF t \in IntTypes /\ detect_dense_range(t, s, n, 0, 0).ok
    THEN LET d == detect_dense_range(t, s, n, 0, 0)
         IN  HistogramAllocFails(t, s, d.min, d.max, tmp) \cup
             {Result(o.R, o.temp, Returned(o.ok), "counting") :
                  o \in counting_sort_stable(t, s, n, d.min, d.max, tmp)}
    ELSE {Result(RadixEncode(t, s), tmp, "radix", "radix")}

-----------------------------------------------------------------------------
(* Key-based sorting.  v is what key_func returns, a value of KeyType t.  *)

\* int32_t k = key_func(item): the key converted to int32_t
KeyAsInt32(t, k) == ToSignedW(ToUnsignedW(k, BITS32), BITS32)

is_pattern_sorted_for_keys(t, s, n) ==
    IF n < 8 THEN TRUE
    ELSE LET m == n \div 2
         IN  /\ Asc4(t, s, 0) \/ Desc4(t, s, 0)
             /\ Asc4(t, s, m - 1) \/ Desc4(t, s, m - 1)
             /\ Asc4(t, s, n - 4) \/ Desc4(t, s, n - 4)

\* The detector over keys with the sample-stage threshold of the
\* primitive detector: reject when range_est > n.
detect_dense_range_for_keys_tight(t, s, n) ==
    LET sampled == {KeyAsInt32(t, s[1].v)} \cup {KeyAsInt32(t, s[i + 1].v) : i \in SampleIdx(n)}
        smin == MinVal(sampled)
        smax == MaxVal(sampled)
        range_est == smax - smin + 1
        all == {smin, smax} \cup {KeyAsInt32(t, s[i].v) : i \in 1..n}
        fmin == MinVal(all)
        fmax == MaxVal(all)
        range == fmax - fmin + 1
    IN  IF range_est > n THEN [ok |-> FALSE, min |-> 0, max |-> 0]
        ELSE IF range <= n * 2
             THEN [ok |-> TRUE, min |-> fmin, max |-> fmax]
             ELSE [ok |-> FALSE, min |-> 0, max |-> 0]

detect_dense_range_for_keys(t, s, n) ==
    LET sampled == {KeyAsInt32(t, s[1].v)} \cup {KeyAsInt32(t, s[i + 1].v) : i \in SampleIdx(n)}
        smin == MinVal(sampled)
        smax == MaxVal(sampled)
        range_est == smax - smin + 1
        all == {smin, smax} \cup {KeyAsInt32(t, s[i].v) : i \in 1..n}
        fmin == MinVal(all)
        fmax == MaxVal(all)
        range == fmax - fmin + 1
    IN  IF range_est > n * 2 THEN [ok |-> FALSE, min |-> 0, max |-> 0]
        ELSE IF range <= n * 2
             THEN [ok |-> TRUE, min |-> fmin, max |-> fmax]
             ELSE [ok |-> FALSE, min |-> 0, max |-> 0]

\* The counting sort over records written like the unstable counting sort:
\* records rebuilt from the bucket index instead of moved.
counting_sort_objects_regen(t, s, n, min_key, max_key, tmp) ==
    LET range == CountRange("i32", min_key, max_key)
        bk == [i \in 1..n |-> CountIndex("i32", KeyAsInt32(t, s[i].v), min_key)]
        out == Emit("i32", Histogram(bk, n, range), 0, range, min_key)
    IN  {[ok |-> TRUE, temp |-> tmp,
          R |-> [p \in 1..n |-> Elem(IF t = "u32" THEN ToUnsignedW(out[p], BITS32) ELSE out[p], 0)]]}

counting_sort_objects_stable(t, s, n, min_key, max_key, tmp) ==
    LET range == CountRange("i32", min_key, max_key)
        bk == [i \in 1..n |-> CountIndex("i32", KeyAsInt32(t, s[i].v), min_key)]
    IN  IF IndicesInRange(bk, n, range)
        THEN LET placed == PlaceBack(s, bk, n, PrefixSum(Histogram(bk, n, range), range), tmp)
             IN  {[ok |-> TRUE, R |-> placed, temp |-> placed]}
        ELSE {[ok |-> FALSE, R |-> s, temp |-> tmp], [ok |-> TRUE, R |-> tmp, temp |-> tmp]}

sort_by_key(t, s, n) ==
    IF n < SMALL_THRESHOLD
    THEN {Result(StdStableSort(t, s), <<>>, "done", "small")}
    ELSE IF is_pattern_sorted_for_keys(t, s, n)
    THEN {Result(StdStableSort(t, s), <<>>, "done", "pattern")}
    ELSE IF detect_dense_range_for_keys(t, s, n).ok
    THEN LET d == detect_dense_range_for_keys(t, s, n)
         IN  ScratchAllocFails(t, s) \cup
             HistogramAllocFails("i32", s, d.min, d.max, ZeroBuffer(n)) \cup
             {Result(o.R, o.temp, Returned(o.ok), "counting") :
                  o \in counting_sort_objects_stable(t, s, n, d.min, d.max, ZeroBuffer(n))}
    ELSE {Result(StdStableSort(t, s), <<>>, "done", "sparse")}

-----------------------------------------------------------------------------
(* Inputs.  Integers: every sequence of up to MaxLen values over one of a  *)
(* few two-valued sets (the extremes; a dense pair; a pair whose range     *)
(* lies between n and 2n; a sparse pair).  Floats: every sequence of up to *)
(* MaxLen zeros, at most MaxNegZeros of them negative, with at most one    *)
(* other element among them, and every sequence over a negative normal and *)
(* a positive subnormal.                                                   *)

IntBase(t) == IF t \in SignedTypes THEN -3 ELSE 5

ValueSets(t) ==
    {{MinOf(t), MaxOf(t)}, {IntBase(t), IntBase(t) + 1}, {IntBase(t), IntBase(t) + 40}}
        \cup (IF Bits(t) = BITS32 THEN {{IntBase(t), IntBase(t) + 10}} ELSE {})

FloatOne(t) == (FExpMax(t) \div 2) * 2 ^ Mant(t)

SeqsOver(D) == UNION {[1..n -> D] : n \in 0..MaxLen}

Inputs(t) ==
    IF t \in FloatTypes
    THEN {vs \in SeqsOver({NegZero(t), PosZero, FloatOne(t)}) :
              /\ Cardinality({i \in 1..Len(vs) : vs[i] = FloatOne(t)}) <= 1
              /\ Cardinality({i \in 1..Len(vs) : vs[i] = NegZero(t)}) <= MaxNegZeros}
         \cup SeqsOver({NegZero(t) + FloatOne(t) + 1, 3})
    ELSE UNION {SeqsOver(D) : D \in ValueSets(t)}

Init ==
    /\ ty \in Types
    /\ R \in {Tagged(vs) : vs \in Inputs(ty)}
    /\ R0 = R
    /\ temp = <<>>
    /\ pc = "idle"
    /\ op = "none" /\ path = "none" /\ shift = 0 /\ srcIsArr = TRUE
    /\ x = 0 /\ y = 0 /\ ex = 0 /\ ey = 0 /\ dx = 0
    /\ ret = NoCall
    /\ lp = NoLoop
    /\ temp0 = <<>>

Dispatch(results) ==
    \E o \in results :
        /\ R' = o.R
        /\ temp' = o.temp
        /\ pc' = o.pc
        /\ path' = o.path

Trivial ==
    /\ pc' = "done"
    /\ path' = "trivial"
    /\ UNCHANGED <<R, temp>>

\* tiered::sort(first, last)
Sort ==
    /\ pc = "idle"
    /\ op' = "sort"
    /\ IF Len(R) <= 1 THEN Trivial
       ELSE Dispatch(ScratchAllocFails(ty, R) \cup
                     tieredsort_impl(ty, R, Len(R), ZeroBuffer(Len(R))))
    /\ shift' = 0 /\ srcIsArr' = TRUE
    /\ UNCHANGED <<temp0, lp, ret, ty, R0, x, y, ex, ey, dx>>

\* tiered::stable_sort(first, last)
StableSort ==
    /\ pc = "idle"
    /\ op' = "stable_sort"
    /\ IF Len(R) <= 1 THEN Trivial
       ELSE Dispatch(ScratchAllocFails(ty, R) \cup
                     tieredsort_stable_impl(ty, R, Len(R), ZeroBuffer(Len(R))))
    /\ shift' = 0 /\ srcIsArr' = TRUE
    /\ UNCHANGED <<temp0, lp, ret, ty, R0, x, y, ex, ey, dx>>

\* tiered::sort_by_key(first, last, key_func)
SortByKey ==
    /\ pc = "idle"
    /\ ty \in KeyTypes
    /\ op' = "sort_by_key"
    /\ IF Len(R) <= 1 THEN Trivial
       ELSE Dispatch(sort_by_key(ty, R, Len(R)))
    /\ shift' = 0 /\ srcIsArr' = TRUE
    /\ UNCHANGED <<temp0, lp, ret, ty, R0, x, y, ex, ey, dx>>

\* one iteration of for (shift = 0; shift < width; shift += RADIX_BITS)
\* A write outside dst is undefined behaviour: the call dies there, or
\* the stray writes land beside dst and the loop goes on.
RadixPass ==
    /\ pc = "radix"
    /\ shift < Bits(ty)
    /\ \/ /\ IF srcIsArr
             THEN temp' = RadixPassResult(R, temp, shift) /\ UNCHANGED R
             ELSE R' = RadixPassResult(temp, R, shift) /\ UNCHANGED temp
          /\ srcIsArr' = ~srcIsArr
          /\ shift' = shift + RADIX_BITS
          /\ UNCHANGED pc
       \/ /\ ~(IF srcIsArr THEN RadixPassInBounds(R, temp, shift)
                ELSE RadixPassInBounds(temp, R, shift))
          /\ pc' = "crashed"
          /\ UNCHANGED <<R, temp, srcIsArr, shift>>
    /\ UNCHANGED <<temp0, lp, ret, ty, R0, op, path, x, y, ex, ey, dx>>

\* after the loop: copy back if the source is not arr, then decode
RadixFinish ==
    /\ pc = "radix"
    /\ shift >= Bits(ty)
    /\ R' = RadixDecode(ty, IF srcIsArr THEN R ELSE temp)
    /\ pc' = "done"
    /\ UNCHANGED <<temp0, lp, ret, ty, R0, temp, op, path, shift, srcIsArr, x, y, ex, ey, dx>>

Next == Sort \/ StableSort \/ SortByKey \/ RadixPass \/ RadixFinish

Spec == Init /\ [][Next]_vars

-----------------------------------------------------------------------------
(* The same calls with one input longer than an int counter can count.     *)

\* More elements than the largest int.
HugeLen == SignBit(BITS32) + 2

\* 0, max, 0, max, ...: no window is monotone and the samples span the type
HugeInput == [i \in 1..HugeLen |-> IF i % 2 = 0 THEN MaxOf("u32") ELSE 0]

InitLarge ==
    /\ ty \in Types
    /\ R \in {Tagged(vs) : vs \in Inputs(ty) \cup (IF ty = "u32" THEN {HugeInput} ELSE {})}
    /\ R0 = R
    /\ temp = <<>>
    /\ pc = "idle"
    /\ op = "none" /\ path = "none" /\ shift = 0 /\ srcIsArr = TRUE
    /\ x = 0 /\ y = 0 /\ ex = 0 /\ ey = 0 /\ dx = 0
    /\ ret = NoCall
    /\ lp = NoLoop
    /\ temp0 = <<>>

NextLarge == Sort \/ StableSort \/ RadixPass \/ RadixFinish

SpecLarge == InitLarge /\ [][NextLarge]_vars

-----------------------------------------------------------------------------
(* The overloads taking the caller's buffer.  The buffer has room for n    *)
(* elements and holds whatever the caller left in it: zeros, as a fresh    *)
(* std::vector does, or stale data.                                        *)

Buffers(n) == {ZeroBuffer(n), [i \in 1..n |-> Elem(i, 0)]}

\* if (n <= 1) return; with the caller's buffer in hand
TrivialBuffer(buffer) ==
    /\ pc' = "done"
    /\ path' = "trivial"
    /\ temp' = buffer
    /\ UNCHANGED R

\* tiered::sort(first, last, buffer)
SortBuffer ==
    /\ pc = "idle"
    /\ op' = "sort_buffer"
    /\ \E buffer \in Buffers(Len(R)) :
           /\ temp0' = buffer
           /\ IF Len(R) <= 1 THEN TrivialBuffer(buffer)
              ELSE Dispatch(tieredsort_impl(ty, R, Len(R), buffer))
    /\ shift' = 0 /\ srcIsArr' = TRUE
    /\ UNCHANGED <<lp, ret, ty, R0, x, y, ex, ey, dx>>

\* tiered::stable_sort(first, last, buffer)
StableSortBuffer ==
    /\ pc = "idle"
    /\ op' = "stable_sort_buffer"
    /\ \E buffer \in Buffers(Len(R)) :
           /\ temp0' = buffer
           /\ IF Len(R) <= 1 THEN TrivialBuffer(buffer)
              ELSE Dispatch(tieredsort_stable_impl(ty, R, Len(R), buffer))
    /\ shift' = 0 /\ srcIsArr' = TRUE
    /\ UNCHANGED <<lp, ret, ty, R0, x, y, ex, ey, dx>>

NextBuffer ==
    Sort \/ StableSort \/ SortBuffer \/ StableSortBuffer \/ RadixPass \/ RadixFinish

SpecBuffer == Init /\ [][NextBuffer]_vars

-----------------------------------------------------------------------------
(* A second call on what the first one returned. *)

\* tiered::sort(first, last) called again on the range it has just sorted
SortAgain ==
    /\ pc = "done"
    /\ op = "sort"
    /\ op' = "sort_again"
    /\ R0' = R
    /\ IF Len(R) <= 1 THEN Trivial
       ELSE Dispatch(ScratchAllocFails(ty, R) \cup
                     tieredsort_impl(ty, R, Len(R), ZeroBuffer(Len(R))))
    /\ shift' = 0 /\ srcIsArr' = TRUE
    /\ UNCHANGED <<temp0, lp, ret, ty, x, y, ex, ey, dx>>

NextAgain == Sort \/ SortAgain \/ RadixPass \/ RadixFinish

\* the inputs of Init, the float ones with at most one negative zero
AgainInit ==
    /\ Init
    /\ ty \in FloatTypes =>
           Cardinality({i \in 1..Len(R) : R[i].v = NegZero(ty)}) <= 1

SpecAgain == AgainInit /\ [][NextAgain]_vars

-----------------------------------------------------------------------------
(* The detectors called on their own, as detail:: functions.  A call       *)
(* leaves in ret the function called, the value returned and, for the      *)
(* Range Detector, out_min and out_max before and after the call.          *)

\* values the caller's out_min, out_max hold before the call
OutPriors == {<<0, 0>>, <<7, 9>>}

\* detail::is_pattern_sorted(arr, n)
PatternDetect ==
    /\ pc = "idle"
    /\ op' = "detect"
    /\ pc' = "done"
    /\ ret' = [NoCall EXCEPT !.fn = "is_pattern_sorted",
                             !.ok = is_pattern_sorted(ty, R, Len(R))]
    /\ UNCHANGED <<temp0, lp, ty, R, R0, temp, path, shift, srcIsArr, x, y, ex, ey, dx>>

\* detail::is_pattern_sorted_for_keys(first, n, key_func)
PatternDetectKeys ==
    /\ pc = "idle"
    /\ ty \in KeyTypes
    /\ op' = "detect"
    /\ pc' = "done"
    /\ ret' = [NoCall EXCEPT !.fn = "is_pattern_sorted_for_keys",
                             !.ok = is_pattern_sorted_for_keys(ty, R, Len(R))]
    /\ UNCHANGED <<temp0, lp, ty, R, R0, temp, path, shift, srcIsArr, x, y, ex, ey, dx>>

\* detail::detect_dense_range(arr, n, out_min, out_max); arr[0] is read
\* unconditionally, so n >= 1
RangeDetect ==
    /\ pc = "idle"
    /\ ty \in IntTypes
    /\ Len(R) >= 1
    /\ op' = "detect"
    /\ pc' = "done"
    /\ \E prior \in OutPriors :
           LET d == detect_dense_range(ty, R, Len(R), prior[1], prior[2])
           IN  ret' = [fn |-> "detect_dense_range", ok |-> d.ok,
                       min |-> d.min, max |-> d.max,
                       in_min |-> prior[1], in_max |-> prior[2]]
    /\ UNCHANGED <<temp0, lp, ty, R, R0, temp, path, shift, srcIsArr, x, y, ex, ey, dx>>

\* detail::detect_dense_range_for_keys(first, n, key_func, out_min, out_max);
\* key_func(*first) is evaluated unconditionally, so n >= 1
RangeDetectKeys ==
    /\ pc = "idle"
    /\ ty \in KeyTypes
    /\ Len(R) >= 1
    /\ op' = "detect"
    /\ pc' = "done"
    /\ LET d == detect_dense_range_for_keys(ty, R, Len(R))
       IN  ret' = [NoCall EXCEPT !.fn = "detect_dense_range_for_keys",
                                !.ok = d.ok, !.min = d.min, !.max = d.max]
    /\ UNCHANGED <<temp0, lp, ty, R, R0, temp, path, shift, srcIsArr, x, y, ex, ey, dx>>

NextDetect == PatternDetect \/ PatternDetectKeys \/ RangeDetect \/ RangeDetectKeys

SpecDetect == Init /\ [][NextDetect]_vars

-----------------------------------------------------------------------------
(* The loops run on their own, one step of lp per iteration.  size_t       *)
(* counters wrap at 2^BITS64.  lp.at is "head" while the loop condition is *)
(* still to be tested and "exit" once it has been found false; lp.out      *)
(* counts the executions of the body and lp.count0 keeps the histogram the *)
(* emit loop started from.                                                 *)

\* Most buckets of a histogram walked by the emit loop.
MaxRange == 3
\* Largest count in one bucket of such a histogram.
MaxCount == 2

SizeT(a) == ToUnsignedW(a, BITS64)

Histograms == UNION {[1..r -> 0..MaxCount] : r \in 0..MaxRange}

Loop(name, i, n, count) ==
    [loop |-> name, at |-> "head", i |-> i, n |-> n, count |-> count,
     count0 |-> count, out |-> 0]

LoopsInit ==
    /\ ty \in {"i32", "i64"}
    /\ R = <<>>
    /\ R0 = <<>>
    /\ temp = <<>>
    /\ pc = "loops"
    /\ op = "none"
    /\ path = "none"
    /\ shift = 0
    /\ srcIsArr = TRUE
    /\ x = 0 /\ y = 0 /\ ex = 0 /\ ey = 0 /\ dx = 0
    /\ ret = NoCall
    /\ temp0 = <<>>
    /\ lp \in {Loop("sample", 0, n, <<>>) : n \in 0..MaxLen}
             \cup {Loop("countdown", n, n, <<>>) : n \in 0..MaxLen}
             \cup {Loop("emit", 0, Len(c), c) : c \in Histograms}
             \cup {Loop("radix", 0, Bits(ty), <<>>)}

AtHead(name) == pc = "loops" /\ lp.loop = name /\ lp.at = "head"

LoopFrame == UNCHANGED <<temp0, ty, R, R0, temp, pc, op, path, shift, srcIsArr,
                         x, y, ex, ey, dx, ret>>

\* for (size_t i = 0; i < n; i += stride): one sample read
SampleStep ==
    /\ AtHead("sample")
    /\ lp.i < lp.n
    /\ lp' = [lp EXCEPT !.i = SizeT(lp.i + Stride(lp.n)), !.out = lp.out + 1]
    /\ LoopFrame

SampleExit ==
    /\ AtHead("sample")
    /\ ~(lp.i < lp.n)
    /\ lp' = [lp EXCEPT !.at = "exit"]
    /\ LoopFrame

\* for (size_t i = n; i-- > 0;): the test reads i, then i is decremented
CountDownStep ==
    /\ AtHead("countdown")
    /\ lp.i > 0
    /\ lp' = [lp EXCEPT !.i = SizeT(lp.i - 1), !.out = lp.out + 1]
    /\ LoopFrame

CountDownExit ==
    /\ AtHead("countdown")
    /\ ~(lp.i > 0)
    /\ lp' = [lp EXCEPT !.i = SizeT(lp.i - 1), !.at = "exit"]
    /\ LoopFrame

\* while (count[i]-- > 0) arr[idx++] = ...; bucket i is lp.count[i + 1]
EmitStep ==
    /\ AtHead("emit")
    /\ lp.i < lp.n
    /\ lp.count[lp.i + 1] > 0
    /\ lp' = [lp EXCEPT !.count[lp.i + 1] = SizeT(lp.count[lp.i + 1] - 1),
                        !.out = lp.out + 1]
    /\ LoopFrame

\* the test fails on bucket i, which the decrement wraps; i++ of the for
EmitNextBucket ==
    /\ AtHead("emit")
    /\ lp.i < lp.n
    /\ ~(lp.count[lp.i + 1] > 0)
    /\ lp' = [lp EXCEPT !.count[lp.i + 1] = SizeT(lp.count[lp.i + 1] - 1),
                        !.i = SizeT(lp.i + 1)]
    /\ LoopFrame

EmitExit ==
    /\ AtHead("emit")
    /\ ~(lp.i < lp.n)
    /\ lp' = [lp EXCEPT !.at = "exit"]
    /\ LoopFrame

\* for (int shift = 0; shift < 32; shift += 8), 64 in radix_sort_64
RadixShiftStep ==
    /\ AtHead("radix")
    /\ lp.i < lp.n
    /\ lp' = [lp EXCEPT !.i = lp.i + RADIX_BITS, !.out = lp.out + 1]
    /\ LoopFrame

RadixShiftExit ==
    /\ AtHead("radix")
    /\ ~(lp.i < lp.n)
    /\ lp' = [lp EXCEPT !.at = "exit"]
    /\ LoopFrame

NextLoops ==
    \/ SampleStep \/ SampleExit
    \/ CountDownStep \/ CountDownExit
    \/ EmitStep \/ EmitNextBucket \/ EmitExit
    \/ RadixShiftStep \/ RadixShiftExit

\* a running call keeps executing: the next iteration is always taken
SpecLoops == LoopsInit /\ [][NextLoops]_vars /\ WF_vars(NextLoops)

-----------------------------------------------------------------------------
(* Properties *)

Ended == pc \in {"done", "crashed"}

\* non-decreasing under the natural order of t
NonDecreasing(t, s) == \A i \in 1..(Len(s) - 1) : LessEq(t, s[i].v, s[i + 1].v)

Occurrences(s, v) == Cardinality({i \in 1..Len(s) : s[i].v = v})

SameMultiset(a, b) ==
    /\ Len(a) = Len(b)
    /\ \A i \in 1..Len(a) : Occurrences(a, a[i].v) = Occurrences(b, a[i].v)

Equivalent(t, a, b) == ~Less(t, a, b) /\ ~Less(t, b, a)

ValuesOf(s) == {s[i].v : i \in 1..Len(s)}

\* C1: for every element type and every input, once sort(R) is over it has
\* returned, R is non-decreasing and holds the multiset of values it held on
\* entry.
SortContract ==
    (op = "sort" /\ Ended) =>
        /\ pc = "done"
        /\ NonDecreasing(ty, R)
        /\ SameMultiset(R, R0)

\* C2: for every integer type, an input holding only the type's minimum and
\* maximum is sorted correctly by sort: the call completes, R is
\* non-decreasing and the multiset is unchanged.
ExtremesSorted ==
    (op = "sort" /\ Ended /\ ty \in IntTypes /\ ValuesOf(R0) \subseteq {MinOf(ty), MaxOf(ty)}) =>
        /\ pc = "done"
        /\ NonDecreasing(ty, R)
        /\ SameMultiset(R, R0)

\* C3: after sort_by_key the records are in non-decreasing order of their keys
\* under the key type's own order, for int32_t and for uint32_t keys, on
\* every dispatch path.
KeyOrder ==
    (op = "sort_by_key" /\ Ended) =>
        /\ pc = "done"
        /\ NonDecreasing(ty, R)

\* C4: sort_by_key is stable: within every group of equal keys the original
\* indices are strictly increasing, on every dispatch path.
KeyStable ==
    (op = "sort_by_key" /\ Ended) =>
        /\ pc = "done"
        /\ \A i, j \in 1..Len(R) : (i < j /\ R[i].v = R[j].v) => R[i].id < R[j].id

\* C4 witness: the counting sort over records has returned a range in which
\* two records share a key.
KeyStableWitness ==
    /\ op = "sort_by_key" /\ pc = "done" /\ path = "counting"
    /\ R # R0
    /\ \E i, j \in 1..Len(R) : i < j /\ R[i].v = R[j].v

\* C5, for float and double: after stable_sort the elements that compare
\* equal appear with increasing original indices.
StableSortStable ==
    (op = "stable_sort" /\ Ended /\ ty \in FloatTypes) =>
        /\ pc = "done"
        /\ \A i, j \in 1..Len(R) :
               (i < j /\ Equivalent(ty, R[i].v, R[j].v)) => R[i].id < R[j].id

\* C6: sort_by_key returns a permutation of the very records it was given:
\* every record of the input is in R exactly once, with its key and payload.
RecordsPermuted ==
    (op = "sort_by_key" /\ Ended) =>
        /\ pc = "done"
        /\ Len(R) = Len(R0)
        /\ \A k \in 1..Len(R0) : Cardinality({i \in 1..Len(R) : R[i] = R0[k]}) = 1

\* C6 witness: the counting sort over records has returned and moved a record.
RecordsPermutedWitness ==
    /\ op = "sort_by_key" /\ pc = "done" /\ path = "counting"
    /\ R # R0

\* C7: after sort on a float or double input holding both zeros, every -0.0
\* precedes every +0.0, on every dispatch path.
NegZeroFirst ==
    (op = "sort" /\ Ended /\ ty \in FloatTypes) =>
        /\ pc = "done"
        /\ \A i, j \in 1..Len(R) : (R[i].v = PosZero /\ R[j].v = NegZero(ty)) => j < i

\* C8: for every supported element type and every finite value, decoding the
\* encoding gives back exactly the original bit pattern, and the encoding is
\* a value of the unsigned type of the same width.
RoundTrip ==
    /\ pc \in {"encoded", "decoded"} => ex \in 0..Mask(Bits(ty))
    /\ pc = "decoded" => dx = x

\* C8 witness: a negative subnormal double has been encoded and decoded.
RoundTripWitness ==
    /\ pc = "decoded"
    /\ ty = "f64"
    /\ x = NegZero("f64") + 1
    /\ dx = x

\* C9 as stated: encode(a) <= encode(b) exactly when a <= b under the natural
\* order of the element type, the two zeros included.
MonotoneNatural ==
    pc \in {"encoded", "decoded"} => ((ex <= ey) <=> LessEq(ty, x, y))

\* The natural order with -0.0 placed strictly below +0.0.
TotalLessEq(t, a, b) ==
    LessEq(t, a, b) /\ ~(t \in FloatTypes /\ a = PosZero /\ b = NegZero(t))

\* C9 amended: encode(a) <= encode(b) exactly when a <= b, except for
\* a = +0.0, b = -0.0, where encode(+0.0) > encode(-0.0).
MonotoneTotal ==
    pc \in {"encoded", "decoded"} => ((ex <= ey) <=> TotalLessEq(ty, x, y))

\* C9 witness: the two zeros of float have been encoded, -0.0 below +0.0.
MonotoneWitness ==
    /\ pc = "encoded"
    /\ ty = "f32"
    /\ x = NegZero("f32") /\ y = PosZero
    /\ ex < ey

\* C10: when a 64-bit integer input holds both the minimum and the maximum
\* of its type and the dispatch engine consults the Range Detector (n at
\* least the threshold, pattern rejected), detect_dense_range rejects and
\* counting sort is not invoked.
FullRangeRejected ==
    (/\ op \in {"sort", "stable_sort"}
     /\ ty \in {"i64", "u64"}
     /\ Len(R0) >= SMALL_THRESHOLD
     /\ ~is_pattern_sorted(ty, R0, Len(R0))
     /\ {MinOf(ty), MaxOf(ty)} \subseteq ValuesOf(R0)) =>
        /\ ~detect_dense_range(ty, R0, Len(R0), 0, 0).ok
        /\ path # "counting"

\* C11: when an allocation fails during sort, stable_sort or sort_by_key
\* (the internal scratch buffer, a counting-sort histogram, the record
\* scratch), the call ends with the exception and R holds, position for
\* position, what it held on entry: no allocation follows a write to R.
AllocFailureSafe ==
    pc = "bad_alloc" => (R = R0 /\ SameMultiset(R, R0))

\* C11 witness: the histogram of a counting sort failed to allocate in a
\* stable_sort of a signed input that the Pattern Detector rejected.
AllocFailureWitness ==
    /\ pc = "bad_alloc"
    /\ op = "stable_sort"
    /\ path = "counting"
    /\ ty \in SignedTypes
    /\ ~NonDecreasing(ty, R)

\* What a call can leave behind, as (how it ended, the values of R), given
\* the results of its dispatch: a call in the radix loop runs to its end.
Finals(t, results) ==
    {IF o.pc = "radix"
     THEN [pc |-> "done", vals |-> Vals(RadixDecode(t, RadixLoop(t, o.R, o.temp, 0)))]
     ELSE [pc |-> o.pc, vals |-> Vals(o.R)] : o \in results}

\* sort or stable_sort of s with scratch tmp
CallFinals(stable, t, s, tmp) ==
    IF Len(s) <= 1 THEN {[pc |-> "done", vals |-> Vals(s)]}
    ELSE Finals(t, IF stable THEN tieredsort_stable_impl(t, s, Len(s), tmp)
                   ELSE tieredsort_impl(t, s, Len(s), tmp))

\* C12: sort(R) and sort(R, buffer) end the same way and leave the same
\* values in R, whatever the buffer held, and so do stable_sort(R) and
\* stable_sort(R, buffer): whatever one call can leave, the other can.
BufferEquivalence ==
    /\ (op \in {"sort_buffer", "stable_sort_buffer"} /\ Ended) =>
           [pc |-> pc, vals |-> Vals(R)] \in
               CallFinals(op = "stable_sort_buffer", ty, R0, ZeroBuffer(Len(R0)))
    /\ (op \in {"sort", "stable_sort"} /\ Ended) =>
           \A buffer \in Buffers(Len(R0)) :
               [pc |-> pc, vals |-> Vals(R)] \in
                   CallFinals(op = "stable_sort", ty, R0, buffer)

\* a == b of the element type, position for position
EqualElementwise(t, a, b) ==
    /\ Len(a) = Len(b)
    /\ \A i \in 1..Len(a) : Equivalent(t, a[i], b[i])

\* the reference sorted sequence: the values of the input in order
Reference(t, s) == Vals(StdStableSort(t, s))

\* C13: on every input of a primitive type, stable_sort(R) and sort(R)
\* both return and both leave in R, element for element under ==, the
\* reference sorted sequence, hence the same contents as each other.
StableEqualsSort ==
    (op \in {"sort", "stable_sort"} /\ Ended) =>
        /\ pc = "done"
        /\ EqualElementwise(ty, Vals(R), Reference(ty, R0))

\* C14: sort called on a sorted result of sort returns and leaves it
\* unchanged, element for element under ==.
Idempotent ==
    (op = "sort_again" /\ Ended /\ NonDecreasing(ty, R0)) =>
        /\ pc = "done"
        /\ EqualElementwise(ty, Vals(R), Vals(R0))

\* C14 witness: a second sort has returned on a sorted result of at least
\* threshold length that holds two different values.
IdempotentWitness ==
    /\ op = "sort_again"
    /\ pc = "done"
    /\ Len(R0) >= SMALL_THRESHOLD
    /\ NonDecreasing(ty, R0)
    /\ Less(ty, R0[1].v, R0[Len(R0)].v)

\* max - min + 1 over the whole input, as a mathematical integer
ExactRange(s) == MaxVal(ValuesOf(s)) - MinVal(ValuesOf(s)) + 1

\* the same over the elements at positions 0, stride, 2 stride, ...
SampledValues(s) == {s[i + 1].v : i \in SampleIdx(Len(s))}
SampledRange(s) == MaxVal(SampledValues(s)) - MinVal(SampledValues(s)) + 1

\* the dispatch engine went past the Pattern Detector on an integer input
RangeConsulted ==
    /\ op \in {"sort", "stable_sort"}
    /\ path # "none"
    /\ ty \in IntTypes
    /\ Len(R0) >= SMALL_THRESHOLD
    /\ ~is_pattern_sorted(ty, R0, Len(R0))

CascadeLeaf(t, s) ==
    LET n == Len(s)
    IN  IF n <= 1 THEN "trivial"
        ELSE IF n < SMALL_THRESHOLD THEN "small"
        ELSE IF is_pattern_sorted(t, s, n) THEN "pattern"
        ELSE IF t \in IntTypes /\ detect_dense_range(t, s, n, 0, 0).ok THEN "counting"
        ELSE "radix"

\* a call of sort or stable_sort that got its scratch buffer
Dispatched ==
    /\ op \in {"sort", "stable_sort"}
    /\ ~(pc = "bad_alloc" /\ path = "none")

\* C16: a call of sort or stable_sort runs the leaf the cascade selects
\* (return at once for n <= 1; comparison fallback below the threshold;
\* then Pattern Detector, then Range Detector for integers, then radix);
\* the comparison fallback leaves the scratch buffer untouched; the float
\* types never take the counting path; and the leaf of a call never
\* changes: exactly one runs.
DispatchCascade ==
    /\ [](Dispatched =>
              /\ path = CascadeLeaf(ty, R0)
              /\ path = "trivial" => (R = R0 /\ temp = <<>>)
              /\ path \in {"small", "pattern"} => temp = ZeroBuffer(Len(R0))
              /\ ty \in FloatTypes => path # "counting")
    /\ [][path # "none" => path' = path]_vars

\* C16 witness: the radix leaf has sorted a double input of at least
\* threshold length that the Pattern Detector rejected.
DispatchCascadeWitness ==
    /\ op = "stable_sort"
    /\ pc = "done"
    /\ ty = "f64"
    /\ Len(R0) >= SMALL_THRESHOLD
    /\ path = "radix"

\* the four-element window of s starting at 0-based position k, as values
Window(s, k) == [j \in 1..4 |-> s[k + j].v]

\* three adjacent <=, three adjacent >=
Ascending(t, w) == \A j \in 1..(Len(w) - 1) : LessEq(t, w[j], w[j + 1])
Descending(t, w) == \A j \in 1..(Len(w) - 1) : LessEq(t, w[j + 1], w[j])
Monotone(t, w) == Ascending(t, w) \/ Descending(t, w)

\* the window positions the claims name
WindowStarts(n) == {0, n \div 2 - 1, n - 4}

PatternCalled == ret.fn \in {"is_pattern_sorted", "is_pattern_sorted_for_keys"}

\* C17: is_pattern_sorted (and its variant over keys) returns true exactly
\* when n < 8 or each of the windows at 0, n/2 - 1 and n - 4 is ascending
\* or descending, each in its own direction.
PatternExact ==
    PatternCalled =>
        (ret.ok <=> (\/ Len(R) < 8
                     \/ \A k \in WindowStarts(Len(R)) : Monotone(ty, Window(R, k))))

\* C17 witness: is_pattern_sorted returned false on an input whose first
\* and last windows are monotone: the middle window alone decided.
PatternExactWitness ==
    /\ ret.fn = "is_pattern_sorted"
    /\ ~ret.ok
    /\ Monotone(ty, Window(R, 0))
    /\ Monotone(ty, Window(R, Len(R) - 4))

\* the positions a window starting at k covers
WindowIndices(k) == k..(k + 3)

WindowsDisjoint(n) ==
    \A k1, k2 \in WindowStarts(n) :
        k1 # k2 => WindowIndices(k1) \cap WindowIndices(k2) = {}

PatternAccepted == ret.fn = "is_pattern_sorted" /\ ret.ok /\ Len(R) >= 8

\* C18: whenever the Pattern Detector accepts an input with n >= 8, the
\* three windows share no index and are all ascending or all descending.
PatternSameDirection ==
    PatternAccepted =>
        /\ WindowsDisjoint(Len(R))
        /\ \/ \A k \in WindowStarts(Len(R)) : Ascending(ty, Window(R, k))
           \/ \A k \in WindowStarts(Len(R)) : Descending(ty, Window(R, k))

\* C18 amended: whenever the Pattern Detector accepts an input with
\* n >= 8, each of the three windows is ascending or descending.
PatternEachMonotone ==
    PatternAccepted =>
        \A k \in WindowStarts(Len(R)) : Monotone(ty, Window(R, k))

\* C18 witness: the Pattern Detector accepted an input whose first window
\* only ascends and whose last window only descends, the windows sharing
\* positions.
PatternEachMonotoneWitness ==
    /\ PatternAccepted
    /\ ~Descending(ty, Window(R, 0))
    /\ ~Ascending(ty, Window(R, Len(R) - 4))
    /\ ~WindowsDisjoint(Len(R))

\* non-increasing under the natural order of t
NonIncreasing(t, s) == \A i \in 1..(Len(s) - 1) : LessEq(t, s[i + 1].v, s[i].v)

\* C19: the Pattern Detector accepts every non-decreasing and every
\* non-increasing input; sort and stable_sort take such an input of at
\* least threshold length to the pattern path, never to counting or radix
\* sort; and a non-decreasing input comes back equal to itself.
SortedAccepted ==
    (Dispatched /\ (NonDecreasing(ty, R0) \/ NonIncreasing(ty, R0))) =>
        /\ is_pattern_sorted(ty, R0, Len(R0))
        /\ Len(R0) >= SMALL_THRESHOLD => path = "pattern"
        /\ NonDecreasing(ty, R0) =>
               (pc = "done" /\ EqualElementwise(ty, Vals(R), Vals(R0)))

\* C19 witness: stable_sort has taken a reverse-sorted input of at least
\* threshold length to the pattern path and returned it reordered.
SortedAcceptedWitness ==
    /\ op = "stable_sort"
    /\ pc = "done"
    /\ Len(R0) >= SMALL_THRESHOLD
    /\ NonIncreasing(ty, R0)
    /\ ~NonDecreasing(ty, R0)
    /\ path = "pattern"
    /\ Vals(R) # Vals(R0)

\* C20: detect_dense_range accepts exactly when the range of the sampled
\* elements is at most n and the exact range of the whole input is at
\* most 2n; on acceptance out_min and out_max are the minimum and the
\* maximum of the whole input; on rejection they hold what they held
\* before the call.
RangeDetectorExact ==
    ret.fn = "detect_dense_range" =>
        /\ ret.ok <=> (SampledRange(R) <= Len(R) /\ ExactRange(R) <= 2 * Len(R))
        /\ ret.ok => (/\ ret.min = MinVal(ValuesOf(R))
                      /\ ret.max = MaxVal(ValuesOf(R)))
        /\ ~ret.ok => (ret.min = ret.in_min /\ ret.max = ret.in_max)

KeysDetectorCalled == ret.fn = "detect_dense_range_for_keys" /\ ty = "i32"

PermutationOfEncoded(t, s, r0) ==
    /\ Len(s) = Len(r0)
    /\ {s[i].id : i \in 1..Len(s)} = 1..Len(r0)
    /\ \A i \in 1..Len(s) : s[i].v = to_unsigned(t, r0[s[i].id].v)

\* s is ordered by the low bits of v, input order among those that agree
SortedByLowBits(s, bits) ==
    \A i, j \in 1..Len(s) :
        i < j => \/ s[i].v % (2 ^ bits) < s[j].v % (2 ^ bits)
                 \/ /\ s[i].v % (2 ^ bits) = s[j].v % (2 ^ bits)
                    /\ s[i].id < s[j].id

\* equal elements of s are in the order they had on entry
KeepsInputOrder(t, s) ==
    \A i, j \in 1..Len(s) :
        (i < j /\ Equivalent(t, s[i].v, s[j].v)) => s[i].id < s[j].id

\* the buffer the next radix pass reads
RadixSource == IF srcIsArr THEN R ELSE temp

\* the part of C22 about the passes
RadixPassesOrdered ==
    (op \in {"sort", "stable_sort"} /\ pc = "radix") =>
        /\ PermutationOfEncoded(ty, RadixSource, R0)
        /\ SortedByLowBits(RadixSource, shift)

\* C22: after the radix pass with a given shift the source buffer is a
\* permutation of the encoded input ordered by the bits up to and
\* including that digit, input order kept among elements agreeing on
\* them; after the last pass (width / digit passes) and decoding R is
\* sorted and stable.
RadixPassInvariant ==
    /\ RadixPassesOrdered
    /\ (op \in {"sort", "stable_sort"} /\ pc = "done" /\ path = "radix") =>
           /\ shift = Bits(ty)
           /\ NonDecreasing(ty, R)
           /\ {R[i].id : i \in 1..Len(R)} = 1..Len(R0)
           /\ \A i \in 1..Len(R) : R[i].v = R0[R[i].id].v
           /\ KeepsInputOrder(ty, R)

\* s holds the elements of the input r0, each once, as they were
PermutationOfInput(s, r0) ==
    /\ Len(s) = Len(r0)
    /\ {s[i].id : i \in 1..Len(s)} = 1..Len(r0)
    /\ \A i \in 1..Len(s) : s[i].v = r0[s[i].id].v

\* C23: when stable_sort runs the stable counting sort with the minimum
\* and maximum the detector found, the call returns, every scratch
\* position has received one element of the input (each element once),
\* the scratch is sorted with equal values in input order, and R equals
\* the scratch.
StableCountingPlacement ==
    (op = "stable_sort" /\ path = "counting" /\ Ended) =>
        /\ pc = "done"
        /\ PermutationOfInput(temp, R0)
        /\ NonDecreasing(ty, temp)
        /\ KeepsInputOrder(ty, temp)
        /\ R = temp

\* what the emit loop of counting_sort writes, in order, for input s with
\* the minimum and maximum the detector finds
Emitted(t, s) ==
    LET d == detect_dense_range(t, s, Len(s), 0, 0)
        range == CountRange(t, d.min, d.max)
    IN  Emit(t, Histogram(CountBuckets(t, s, Len(s), d.min), Len(s), range), 0, range, d.min)

\* C24: when sort runs the counting sort with the minimum and maximum the
\* detector found, the call returns having written exactly n values, at
\* positions 0 to n - 1 in that order, in ascending bucket order: R is
\* the sorted permutation of the input.
CountingEmitsAll ==
    (op = "sort" /\ path = "counting" /\ Ended) =>
        /\ pc = "done"
        /\ Len(Emitted(ty, R0)) = Len(R0)
        /\ \A i \in 1..Len(R) : R[i] = Elem(Emitted(ty, R0)[i], 0)
        /\ NonDecreasing(ty, R)
        /\ SameMultiset(R, R0)

\* C25: what sort (or stable_sort) with a caller's buffer leaves in R does
\* not depend on what the buffer held on entry: the same call with any
\* other initial contents ends the same way with the same R.
ScratchContentsIrrelevant ==
    (op \in {"sort_buffer", "stable_sort_buffer"} /\ Ended) =>
        \A buffer \in Buffers(Len(R0)) :
            [pc |-> pc, vals |-> Vals(R)] \in
                CallFinals(op = "stable_sort_buffer", ty, R0, buffer)

\* the call ran a counting sort: its histogram was allocated
CountingInvoked ==
    /\ op \in {"sort", "stable_sort", "sort_by_key"}
    /\ path = "counting"
    /\ Ended

\* minimum and maximum the detector of the call hands to its counting sort
DetectedBounds ==
    IF op = "sort_by_key" THEN detect_dense_range_for_keys(ty, R0, Len(R0))
    ELSE detect_dense_range(ty, R0, Len(R0), 0, 0)

\* the type the counting sort of the call computes in, and its keys
CountingType == IF op = "sort_by_key" THEN "i32" ELSE ty
CountingKey(i) == IF op = "sort_by_key" THEN KeyAsInt32(ty, R0[i].v) ELSE R0[i].v

\* the range as the detector of the call computed it
DetectorRange ==
    IF op = "sort_by_key" THEN DetectedBounds.max - DetectedBounds.min + 1
    ELSE safe_range(ty, DetectedBounds.min, DetectedBounds.max)

PatternReads(n) ==
    IF n < 8 THEN {}
    ELSE (0..3) \cup (((n \div 2) - 1)..((n \div 2) + 2)) \cup ((n - 4)..(n - 1))

\* arr[0], then arr[i] for i = 0, stride, 2 stride, ... below n
SampleReads(n) == {0} \cup SampleIdx(n)

\* dst[--count[bk[i]]] for i = n - 1 down to 0: the indices written
RECURSIVE PlaceIndices(_, _, _)
PlaceIndices(bk, i, count) ==
    IF i = 0 THEN {}
    ELSE LET c == SizeT(count[bk[i]] - 1)
         IN  {c} \cup PlaceIndices(bk, i - 1, [count EXCEPT ![bk[i]] = c])

\* what a read beside the histogram may find there
StrayCounts(n) == 0..n

\* the indices temp[--count[idx]] is written at by the stable counting
\* sorts; a count read outside the histogram is any value
CountingPlaceIndices(bk, n, range) ==
    IF IndicesInRange(bk, n, range)
    THEN PlaceIndices(bk, n, PrefixSum(Histogram(bk, n, range), range))
    ELSE {SizeT(c - 1) : c \in StrayCounts(n)}

\* the indices the detectors of the call read R at
DetectorReads ==
    LET n == Len(R0)
    IN  IF path \in {"none", "trivial", "small"} THEN {}
        ELSE PatternReads(n) \cup
             (IF path # "pattern" /\ (op = "sort_by_key" \/ ty \in IntTypes)
              THEN SampleReads(n) ELSE {})

\* the indices the counting sort of the call writes R or the scratch at
CountingWrites ==
    LET n == Len(R0)
        size == CountRange(CountingType, DetectedBounds.min, DetectedBounds.max)
        bk == [i \in 1..n |-> CountIndex(CountingType, CountingKey(i), DetectedBounds.min)]
    IN  IF op = "sort" THEN 0..(Len(Emitted(ty, R0)) - 1)
        ELSE CountingPlaceIndices(bk, n, size) \cup (0..(n - 1))

\* the indices the radix pass about to run writes its destination at
RadixPassWrites ==
    LET src == IF srcIsArr THEN R ELSE temp
        at == RadixPassRun(src, IF srcIsArr THEN temp ELSE R, shift).placed.at
    IN  {at[k] : k \in 1..Len(at)}

InBounds(S, n) == \A k \in S : 0 <= k /\ k < n

ScratchFrame ==
    /\ path = "trivial" =>
           /\ Len(R0) <= 1
           /\ R = R0 /\ temp = temp0
           /\ DetectorReads = {}
    /\ (op = "sort_buffer" /\ path \in {"small", "pattern", "counting"}) =>
           temp = temp0
    /\ (op = "sort_buffer" /\ temp # temp0) => path = "radix"

ScratchFrameWitness ==
    /\ op = "sort_buffer"
    /\ path = "counting"
    /\ pc = "done"
    /\ temp0 # ZeroBuffer(Len(R0))
    /\ temp = temp0
    /\ R # R0

\* C30: in each radix pass the last counter equals n after the prefix
\* sum, the placement writes every index of [0, n) exactly once and
\* leaves each counter at the first position of its bucket; the passes
\* are even in number, so that the loop ends with R as the source and
\* nothing is copied back from the scratch buffer.
RadixPassCounts ==
    /\ (pc = "radix" /\ shift < Bits(ty)) =>
           LET src == IF srcIsArr THEN R ELSE temp
               dst == IF srcIsArr THEN temp ELSE R
               n == Len(src)
               bk == [i \in 1..n |-> Digit(src[i].v, shift)]
               run == RadixPassRun(src, dst, shift)
           IN  /\ run.summed[NumBuckets - 1] = n
               /\ {run.placed.at[k] : k \in 1..n} = 0..(n - 1)
               /\ \A b \in 0..(NumBuckets - 1) :
                      run.placed.count[b] = Cardinality({i \in 1..n : bk[i] < b})
    /\ (Bits(ty) \div RADIX_BITS) % 2 = 0
    /\ (pc = "radix" /\ shift >= Bits(ty)) => srcIsArr
    /\ (pc = "radix" /\ srcIsArr) => (shift \div RADIX_BITS) % 2 = 0

\* the iterations a loop makes when it runs to its end
Iterations(l) ==
    CASE l.loop = "sample" ->
             LET stride == Max2(1, l.n \div SAMPLE_COUNT)
             IN  (l.n + stride - 1) \div stride
      [] l.loop = "countdown" -> l.n
      [] l.loop = "emit" -> SumTo([b \in 0..(l.n - 1) |-> l.count0[b + 1]], l.n - 1)
      [] l.loop = "radix" -> l.n \div RADIX_BITS
      [] OTHER -> 0

\* C26: every loop the sorts run -- the sampling loop with stride
\* max(1, n / SAMPLE_COUNT), the count-down loops, the emit loop and the
\* radix pass loop -- reaches its exit, after exactly the iterations its
\* bound gives and never more.
LoopsTerminate ==
    /\ <>(lp.at = "exit")
    /\ [](lp.out <= Iterations(lp))
    /\ [](lp.at = "exit" => lp.out = Iterations(lp))

LoopsTerminateWitness ==
    /\ lp.loop = "emit"
    /\ lp.at = "exit"
    /\ lp.n = MaxRange
    /\ lp.out > MaxCount

====
